---- MODULE Spec2Model ----
(***************************************************************************)
(* A model of tools/tml-build.py: the manifest sanitizer and validator,    *)
(* the two per-architecture CMake runs, the synthesis of the code section  *)
(* and the assembly of the package archive.                                *)
(*                                                                         *)
(* Strings whose characters the script inspects (version strings, library  *)
(* file names, values coerced by str()) are sequences of one-character     *)
(* strings.  Dictionary keys and file-system names that are only compared  *)
(* as a whole are plain strings.                                           *)
(***************************************************************************)
EXTENDS Integers, Sequences, FiniteSets, TLC

\* ------------------------------------------------------------------------
\* Bounds of the model
\* ------------------------------------------------------------------------
MaxVerLen == 3
MaxCodeEntries == 2
MaxDepth == 2

\* ------------------------------------------------------------------------
\* YAML values
\* ------------------------------------------------------------------------
VStr(s) == [k |-> "str", v |-> s]
VInt(n) == [k |-> "int", v |-> n]
VFloat(i, f) == [k |-> "float", v |-> <<i, f>>]
VBool(b) == [k |-> "bool", v |-> b]
VNull == [k |-> "null", v |-> <<>>]
VList(l) == [k |-> "list", v |-> l]

EmptyDict == [p \in {} |-> VNull]

\* isinstance(x, str)
IsStr(x) == x.k = "str"

\* isinstance(x, numbers.Number): int, float and bool (a subclass of int)
IsNumber(x) == x.k \in {"int", "float", "bool"}

Digits == <<"0", "1", "2", "3", "4", "5", "6", "7", "8", "9">>

RECURSIVE Dec(_)
Dec(n) == IF n < 10 THEN <<Digits[n + 1]>>
          ELSE Dec(n \div 10) \o <<Digits[(n % 10) + 1]>>

\* str(x) for a number x
PyStr(x) ==
  CASE x.k = "int" -> IF x.v < 0 THEN <<"-">> \o Dec(-x.v) ELSE Dec(x.v)
    [] x.k = "float" -> Dec(x.v[1]) \o <<".">> \o Dec(x.v[2])
    [] x.k = "bool" -> IF x.v THEN <<"T", "r", "u", "e">>
                       ELSE <<"F", "a", "l", "s", "e">>

\* ------------------------------------------------------------------------
\* verify_properties
\* ------------------------------------------------------------------------
Warn(m, a) == [msg |-> m, arg |-> a]

\* verify_properties without the deletion of unknown properties
DelUnknown_KeepAll(d, recognized_properties) == d

\* the dictionary after the first two loops: unknown properties deleted
DelUnknown(d, recognized_properties) ==
  [p \in (DOMAIN d) \cap recognized_properties |-> d[p]]

\* verify_properties deleting numbers like any other non-string
BadStrings_RejectNumbers(d, string_properties) ==
  {p \in (DOMAIN d) \cap string_properties : ~IsStr(d[p])}

\* the properties the third loop deletes
BadStrings(d, string_properties) ==
  {p \in (DOMAIN d) \cap string_properties : ~IsStr(d[p]) /\ ~IsNumber(d[p])}

CoerceStrings(d, string_properties) ==
  [p \in (DOMAIN d) \ BadStrings(d, string_properties) |->
     IF p \in string_properties /\ ~IsStr(d[p]) THEN VStr(PyStr(d[p]))
     ELSE d[p]]

verify_properties(d, recognized_properties, string_properties) ==
  CoerceStrings(DelUnknown(d, recognized_properties), string_properties)

verify_warnings(d, recognized_properties, string_properties) ==
  {Warn("not recognized", <<p>>) : p \in (DOMAIN d) \ recognized_properties}
  \cup {Warn("must be a string", <<p>>) :
          p \in BadStrings(DelUnknown(d, recognized_properties),
                           string_properties)}

package_yaml_string_properties == {"id", "name", "author", "version"}
package_yaml_recognized_properties ==
  package_yaml_string_properties \cup {"code", "dependencies"}
code_string_properties == {"loader", "type", "path", "name"}

\* ------------------------------------------------------------------------
\* version_regexp = ^\d+(\.\d+(\.\d+)?)?$ applied with match()
\* ------------------------------------------------------------------------
IsDigit(c) == c \in {Digits[i] : i \in 1..10}

\* \d+ over the whole of s
DigitRun(s) == Len(s) > 0 /\ \A i \in 1..Len(s) : IsDigit(s[i])

\* \d+(\.\d+)? over the whole of s
TwoGroups(s) ==
  \/ DigitRun(s)
  \/ \E i \in 1..Len(s) : /\ s[i] = "."
                          /\ DigitRun(SubSeq(s, 1, i - 1))
                          /\ DigitRun(SubSeq(s, i + 1, Len(s)))

\* \d+(\.\d+(\.\d+)?)? over the whole of s
DottedTriple(s) ==
  \/ DigitRun(s)
  \/ \E i \in 1..Len(s) : /\ s[i] = "."
                          /\ DigitRun(SubSeq(s, 1, i - 1))
                          /\ TwoGroups(SubSeq(s, i + 1, Len(s)))

\* Python's $ matches at the end of the string and also just before a
\* newline that is the last character of the string
version_match(s) ==
  \/ DottedTriple(s)
  \/ /\ Len(s) > 0
     /\ s[Len(s)] = "\n"
     /\ DottedTriple(SubSeq(s, 1, Len(s) - 1))

\* ------------------------------------------------------------------------
\* Strings of the script, as sequences of characters
\* ------------------------------------------------------------------------
startswith(s, prefix) ==
  Len(s) >= Len(prefix) /\ SubSeq(s, 1, Len(prefix)) = prefix

endswith(s, suffix) ==
  Len(s) >= Len(suffix) /\ SubSeq(s, Len(s) - Len(suffix) + 1, Len(s)) = suffix

S_lib == <<"l", "i", "b">>
S_so == <<".", "s", "o">>
S_native == <<"n", "a", "t", "i", "v", "e">>
S_assets == <<"a", "s", "s", "e", "t", "s">>
S_resource_pack == <<"r", "e", "s", "o", "u", "r", "c", "e", "_", "p", "a", "c", "k">>
S_arm == <<"a", "r", "m", "e", "a", "b", "i", "-", "v", "7", "a">>
S_x86 == <<"x", "8", "6">>
S_package_yaml == <<"p", "a", "c", "k", "a", "g", "e", ".", "y", "a", "m", "l">>
S_tbp == <<".", "t", "b", "p">>
S_out == <<"o", "u", "t">>
Slash == <<"/">>

\* both loops of the packaging step writing below native/armeabi-v7a/
ArchPrefix_AlwaysArm(a) == S_native \o Slash \o S_arm \o Slash

\* "native/armeabi-v7a/" and "native/x86/"
ArchPrefix(a) ==
  S_native \o Slash \o (IF a = "arm" THEN S_arm ELSE S_x86) \o Slash

\* shortname of a library: lib[3:][:-3] when it is lib*.so, else the name
shortname(lib) ==
  IF startswith(lib, S_lib) /\ endswith(lib, S_so)
  THEN SubSeq(lib, 4, Len(lib) - 3)
  ELSE lib

\* yaml.dump(d): the mapping written out with its keys in sorted order
KeyOrder ==
  <<"author", "code", "dependencies", "id", "name", "version", "website">>

yaml_dump(d) ==
  LET present == SelectSeq(KeyOrder, LAMBDA key : key \in DOMAIN d)
  IN  [i \in 1..Len(present) |-> <<present[i], d[present[i]]>>]

\* ------------------------------------------------------------------------
\* Inputs: the manifest file, what the CMake runs leave behind, the source
\* tree and the directories visible from the working directory
\* ------------------------------------------------------------------------
RECURSIVE SeqsUpTo(_, _)
SeqsUpTo(S, n) ==
  IF n = 0 THEN {<<>>}
  ELSE LET shorter == SeqsUpTo(S, n - 1)
       IN  shorter \cup {Append(t, x) : t \in shorter, x \in S}

\* sequences listing every element of S once, in any order
Orderings(S) ==
  {t \in SeqsUpTo(S, Cardinality(S)) :
     Len(t) = Cardinality(S) /\ {t[i] : i \in 1..Len(t)} = S}

Extend(d, key, val) ==
  [x \in (DOMAIN d) \cup {key} |-> IF x = key THEN val ELSE d[x]]

\* the dictionaries holding any subset of the keys, each key with one of
\* the values vals[key]
RECURSIVE Dicts(_, _)
Dicts(keys, vals) ==
  IF keys = {} THEN {EmptyDict}
  ELSE LET key == CHOOSE x \in keys : TRUE
           rest == Dicts(keys \ {key}, vals)
       IN  rest \cup {Extend(d, key, val) : d \in rest, val \in vals[key]}

VerChars == {"1", ".", "\n"}
VerStrings == SeqsUpTo(VerChars, MaxVerLen)

S_pkg == <<"p", "k", "g">>
S_foo == <<"f", "o", "o">>
S_mod == <<"m", "o", "d">>

TopKeys == {"id", "name", "author", "version", "dependencies", "website"}

TopVals ==
  [key \in TopKeys |->
     CASE key = "id" -> {VStr(S_pkg), VInt(7), VBool(TRUE), VNull}
       [] key = "name" -> {VInt(12), VNull}
       [] key = "author" -> {VStr(S_foo), VFloat(1, 5)}
       [] key = "version" -> {VStr(s) : s \in VerStrings}
                             \cup {VInt(1), VFloat(1, 0), VList(<<>>)}
       [] key = "dependencies" -> {VList(<<>>)}
       [] key = "website" -> {VStr(S_foo)}]

TopManifests == Dicts(TopKeys, TopVals)

CodeKeys == {"type", "loader", "name", "path", "entry"}

CodeVals ==
  [key \in CodeKeys |->
     CASE key = "type" -> {VStr(S_native), VStr(<<>>)}
       [] key = "loader" -> {VStr(S_mod), VNull}
       [] key = "name" -> {VStr(S_foo)}
       [] key = "path" -> {VInt(7)}
       [] key = "entry" -> {VStr(S_foo)}]

\* code entries: every choice of the four known fields, and the entries
\* that carry the unknown field "entry" next to a type and a name
CodeEntries ==
  Dicts({"type", "loader", "name", "path"}, CodeVals)
  \cup Dicts({"type", "name", "entry"}, CodeVals)

BaseManifest == [key \in {"id", "version"} |->
                   IF key = "id" THEN VStr(S_pkg) ELSE VStr(<<"1", ".", "0">>)]

WithCode(d, c) ==
  [key \in (DOMAIN d) \cup {"code"} |-> IF key = "code" THEN c ELSE d[key]]

CodeManifests ==
  {WithCode(BaseManifest, VList(l)) : l \in SeqsUpTo(CodeEntries, MaxCodeEntries)}
  \cup {WithCode(BaseManifest, VStr(S_foo))}

LibFooSo == S_lib \o S_foo \o S_so
BarSo == <<"b", "a", "r">> \o S_so
MakeFile == <<"M", "a", "k", "e", "f", "i", "l", "e">>
BuildFiles == {LibFooSo, BarSo, MakeFile}

\* what one CMake run leaves in its build directory: the target directories
\* under CMakeFiles, the targets named by TargetDirectories.txt and the
\* files of the build directory in the order os.listdir returns them
BuildDirs ==
  [all_target_dirs : {<<"app.dir">>, <<"old.dir", "app.dir">>, <<"old.dir">>},
   built_target_dirs : {{"app.dir"}},
   files : UNION {Orderings(fs) : fs \in SUBSET BuildFiles}]

BaseBuildDir ==
  [all_target_dirs |-> <<"app.dir">>, built_target_dirs |-> {"app.dir"},
   files |-> <<LibFooSo>>]

\* the source tree below the three auxiliary directories: entries named "a"
\* are files, entries named "d" are directories
RECURSIVE SubTrees(_, _)
SubTrees(dir, depth) ==
  LET file == dir \o Slash \o <<"a">>
      sub == dir \o Slash \o <<"d">>
      here == {[files |-> {}, dirs |-> {dir}],
               [files |-> {file}, dirs |-> {dir}]}
  IN  IF depth = 0 THEN {[files |-> {}, dirs |-> {dir}]}
      ELSE here \cup
           {[files |-> h.files \cup t.files, dirs |-> h.dirs \cup t.dirs] :
              h \in here, t \in SubTrees(sub, depth - 1)}

NoTree == [files |-> {}, dirs |-> {}]
AuxDirs == <<S_native, S_assets, S_resource_pack>>

SourceTrees ==
  UNION {SubTrees(AuxDirs[i], MaxDepth) : i \in 1..3}
  \cup {NoTree}
  \cup {[files |-> {AuxDirs[i] \o Slash \o <<"a">> : i \in 1..3},
         dirs |-> {AuxDirs[i] : i \in 1..3}]}

\* directories found under the working directory at the archive paths
CwdDirs(tree) ==
  {tree.dirs, {}} \cup
  {{p} : p \in tree.files} \cup
  {tree.dirs \cup {p} : p \in tree.files}

\* ------------------------------------------------------------------------
\* State
\* ------------------------------------------------------------------------
VARIABLES
  pc,             \* position in the script
  exit_status,    \* -1 while running, then the exit status of the process
  manifest_file,  \* parsed content of package.yaml in the source directory
  cmake_fs,       \* per architecture, what its CMake run leaves behind
  src_tree,       \* files and directories below the source directory
  cwd_dirs,       \* directories below the working directory
  package_yaml,   \* the manifest dictionary
  warnings,       \* warnings printed so far
  package_yaml_native_libs,
  code_idx,       \* index of the code entry the validation loop is at
  arch,           \* architecture run_cmake is running for
  invoked,        \* external commands run so far
  todo_dirs,      \* target directories the clean loop has still to visit
  deleted,        \* target directories removed by the clean loop
  arm_libs,
  x86_libs,
  output_pkg_path, \* path the archive is written to
  pack_idx,       \* index of the next pack_dir call
  archive         \* state ("none", "open", "closed") and entries of the output archive

vars == <<pc, exit_status, manifest_file, cmake_fs, src_tree, cwd_dirs,
          package_yaml, warnings, package_yaml_native_libs, code_idx, arch,
          invoked, todo_dirs, deleted, arm_libs, x86_libs, output_pkg_path,
          pack_idx, archive>>

env == <<manifest_file, cmake_fs, src_tree, cwd_dirs>>
manifest_vars == <<package_yaml, warnings, package_yaml_native_libs, code_idx>>
build_vars == <<arch, invoked, todo_dirs, deleted, arm_libs, x86_libs>>
pack_vars == <<output_pkg_path, pack_idx, archive>>

Init ==
  /\ pc = "paths"
  /\ exit_status = -1
  /\ \/ /\ manifest_file \in TopManifests \cup CodeManifests
        /\ cmake_fs = [a \in {"arm", "x86"} |-> BaseBuildDir]
        /\ src_tree = NoTree
        /\ cwd_dirs = {}
     \/ /\ manifest_file \in {BaseManifest,
                              WithCode(BaseManifest, VList(<<>>))}
        /\ cmake_fs \in [{"arm", "x86"} -> BuildDirs]
        /\ src_tree = NoTree
        /\ cwd_dirs = {}
     \/ /\ manifest_file = BaseManifest
        /\ cmake_fs = [a \in {"arm", "x86"} |-> BaseBuildDir]
        /\ src_tree \in SourceTrees
        /\ cwd_dirs \in CwdDirs(src_tree)
  /\ package_yaml = EmptyDict
  /\ warnings = {}
  /\ package_yaml_native_libs = <<>>
  /\ code_idx = 0
  /\ arch = "arm"
  /\ invoked = <<>>
  /\ todo_dirs = <<>>
  /\ deleted = {}
  /\ arm_libs = <<>>
  /\ x86_libs = <<>>
  /\ output_pkg_path = S_out
  /\ pack_idx = 1
  /\ archive = [state |-> "none", entries |-> <<>>]

\* fatal_error that prints and records the failure but does not exit
fatal_error_NoExit ==
  /\ exit_status' = 1
  /\ UNCHANGED pc

\* fatal_error(msg): print and sys.exit(1)
fatal_error ==
  /\ pc' = "exit"
  /\ exit_status' = 1

\* ------------------------------------------------------------------------
\* Loading, sanitizing and validating the manifest
\* ------------------------------------------------------------------------
ValidatePaths ==
  /\ pc = "paths"
  /\ \E cmake_lists_found \in BOOLEAN :
       IF ~cmake_lists_found THEN fatal_error
       ELSE pc' = "load" /\ UNCHANGED exit_status
  /\ UNCHANGED <<env, manifest_vars, build_vars, pack_vars>>

ParsePackageYaml ==
  /\ pc = "load"
  /\ \E package_yaml_found \in BOOLEAN :
       IF ~package_yaml_found
       THEN fatal_error /\ UNCHANGED package_yaml
       ELSE /\ package_yaml' = manifest_file
            /\ pc' = "sanitize"
            /\ UNCHANGED exit_status
  /\ UNCHANGED <<env, warnings, package_yaml_native_libs, code_idx,
                 build_vars, pack_vars>>

SanitizePackageYaml ==
  /\ pc = "sanitize"
  /\ package_yaml' = verify_properties(package_yaml,
                                       package_yaml_recognized_properties,
                                       package_yaml_string_properties)
  /\ warnings' = warnings \cup
                 verify_warnings(package_yaml,
                                 package_yaml_recognized_properties,
                                 package_yaml_string_properties)
  /\ pc' = "validate_id"
  /\ UNCHANGED <<exit_status, env, package_yaml_native_libs, code_idx,
                 build_vars, pack_vars>>

ValidateId ==
  /\ pc = "validate_id"
  /\ IF "id" \notin DOMAIN package_yaml THEN fatal_error
     ELSE pc' = "validate_version" /\ UNCHANGED exit_status
  /\ UNCHANGED <<env, manifest_vars, build_vars, pack_vars>>

ValidateVersion ==
  /\ pc = "validate_version"
  /\ IF \/ "version" \notin DOMAIN package_yaml
        \/ ~version_match(package_yaml["version"].v)
     THEN fatal_error
     ELSE pc' = "validate_code" /\ UNCHANGED exit_status
  /\ UNCHANGED <<env, manifest_vars, build_vars, pack_vars>>

ValidateCode ==
  /\ pc = "validate_code"
  /\ IF "code" \notin DOMAIN package_yaml
     THEN pc' = "toolchain" /\ UNCHANGED <<exit_status, code_idx>>
     ELSE IF package_yaml["code"].k # "list"
     THEN fatal_error /\ UNCHANGED code_idx
     ELSE pc' = "code_entry" /\ code_idx' = 1 /\ UNCHANGED exit_status
  /\ UNCHANGED <<env, package_yaml, warnings, package_yaml_native_libs,
                 build_vars, pack_vars>>

\* loader and path of a sanitized code entry; PyFalse is the initial False
PyFalse == [found |-> FALSE, v |-> <<>>]
Found(x) == [found |-> TRUE, v |-> x]

\* the loader resolved from loader before type
entry_loader_LoaderFirst(code) ==
  IF "loader" \in DOMAIN code THEN Found(code["loader"].v)
  ELSE IF "type" \in DOMAIN code THEN Found(code["type"].v)
  ELSE PyFalse

entry_loader(code) ==
  IF "type" \in DOMAIN code THEN Found(code["type"].v)
  ELSE IF "loader" \in DOMAIN code THEN Found(code["loader"].v)
  ELSE PyFalse

entry_path(code) ==
  IF "name" \in DOMAIN code THEN Found(code["name"].v)
  ELSE IF "path" \in DOMAIN code THEN Found(code["path"].v)
  ELSE PyFalse

\* Python's "not x" for x being False or a string
Falsy(x) == ~x.found \/ x.v = <<>>

\* the loop over package_yaml["code"]: one entry per step
ValidateCodeEntry ==
  /\ pc = "code_entry"
  /\ LET entries == package_yaml["code"].v
     IN  IF code_idx > Len(entries)
         THEN /\ pc' = "toolchain"
              /\ UNCHANGED <<exit_status, package_yaml, warnings,
                             package_yaml_native_libs, code_idx>>
         ELSE LET raw == entries[code_idx]
                  code == verify_properties(raw, code_string_properties,
                                            code_string_properties)
                  loader == entry_loader(code)
                  path == entry_path(code)
              IN  /\ package_yaml' =
                       [package_yaml EXCEPT !["code"] =
                          VList([entries EXCEPT ![code_idx] = code])]
                  /\ warnings' = warnings \cup
                       verify_warnings(raw, code_string_properties,
                                       code_string_properties)
                  /\ IF Falsy(loader) \/ Falsy(path)
                     THEN /\ fatal_error
                          /\ UNCHANGED <<package_yaml_native_libs, code_idx>>
                     ELSE /\ package_yaml_native_libs' =
                               IF loader.v = S_native
                               THEN Append(package_yaml_native_libs, path.v)
                               ELSE package_yaml_native_libs
                          /\ code_idx' = code_idx + 1
                          /\ UNCHANGED <<pc, exit_status>>
  /\ UNCHANGED <<env, build_vars, pack_vars>>

\* ------------------------------------------------------------------------
\* Toolchain file and CMake
\* ------------------------------------------------------------------------
FindToolchain ==
  /\ pc = "toolchain"
  /\ \E toolchain_found \in BOOLEAN :
       IF ~toolchain_found THEN fatal_error
       ELSE pc' = "cmake_version" /\ UNCHANGED exit_status
  /\ UNCHANGED <<env, manifest_vars, build_vars, pack_vars>>

\* an external command that was run: which one, for which architecture, on
\* which target directory (clean scripts only), and the status it returned
Cmd(c, a, target, status) ==
  [cmd |-> c, arch |-> a, target |-> target, status |-> status]

\* subprocess.check_output([cmake_exec, "--version"]): OSError is fatal, a
\* non-zero status raises CalledProcessError, which nothing catches
CheckCMake ==
  /\ pc = "cmake_version"
  /\ \E outcome \in {"ok", "OSError", "CalledProcessError"} :
       IF outcome = "ok"
       THEN /\ invoked' = Append(invoked, Cmd("--version", "none", "", 0))
            /\ pc' = "configure"
            /\ UNCHANGED exit_status
       ELSE /\ invoked' = IF outcome = "OSError" THEN invoked
                          ELSE Append(invoked, Cmd("--version", "none", "", 1))
            /\ fatal_error
  /\ arch' = "arm"
  /\ UNCHANGED <<env, manifest_vars, todo_dirs, deleted, arm_libs, x86_libs,
                 pack_vars>>

\* run_cmake going on to the build step whatever the first Popen returned
Configure_IgnoreStatus ==
  /\ pc = "configure"
  /\ \E status \in {0, 1} :
       invoked' = Append(invoked, Cmd("configure", arch, "", status))
  /\ pc' = "build"
  /\ UNCHANGED <<exit_status, env, manifest_vars, arch, todo_dirs, deleted,
                 arm_libs, x86_libs, pack_vars>>

\* run_cmake, first Popen: generate the build files
Configure ==
  /\ pc = "configure"
  /\ \E status \in {0, 1} :
       /\ invoked' = Append(invoked, Cmd("configure", arch, "", status))
       /\ IF status # 0 THEN fatal_error
          ELSE pc' = "build" /\ UNCHANGED exit_status
  /\ UNCHANGED <<env, manifest_vars, arch, todo_dirs, deleted, arm_libs,
                 x86_libs, pack_vars>>

\* run_cmake, second Popen: cmake --build .
Build ==
  /\ pc = "build"
  /\ \E status \in {0, 1} :
       /\ invoked' = Append(invoked, Cmd("build", arch, "", status))
       /\ IF status # 0 THEN fatal_error
          ELSE pc' = "targets" /\ UNCHANGED exit_status
  /\ UNCHANGED <<env, manifest_vars, arch, todo_dirs, deleted, arm_libs,
                 x86_libs, pack_vars>>

\* run_cmake: read TargetDirectories.txt and list CMakeFiles/*.dir
ReadTargets ==
  /\ pc = "targets"
  /\ todo_dirs' = cmake_fs[arch].all_target_dirs
  /\ pc' = "clean"
  /\ UNCHANGED <<exit_status, env, manifest_vars, arch, invoked, deleted,
                 arm_libs, x86_libs, pack_vars>>

\* run_cmake: one iteration of the loop over all_target_dirs
CleanTarget ==
  /\ pc = "clean"
  /\ todo_dirs # <<>>
  /\ LET dir == Head(todo_dirs)
     IN  IF dir \in cmake_fs[arch].built_target_dirs
         THEN UNCHANGED <<invoked, warnings, deleted>>
         ELSE /\ \E status \in {0, 1} :
                   /\ invoked' = Append(invoked,
                                        Cmd("clean", arch, dir, status))
                   /\ warnings' =
                        IF status # 0
                        THEN warnings \cup
                             {Warn("Failed to run clean script", <<arch, dir>>)}
                        ELSE warnings
              /\ deleted' = deleted \cup {<<arch, dir>>}
  /\ todo_dirs' = Tail(todo_dirs)
  /\ UNCHANGED <<pc, exit_status, env, package_yaml,
                 package_yaml_native_libs, code_idx, arch, arm_libs,
                 x86_libs, pack_vars>>

\* run_cmake: return the .so files of the build directory; the caller keeps
\* them as arm_libs or x86_libs and goes on
ListLibs ==
  /\ pc = "clean"
  /\ todo_dirs = <<>>
  /\ LET build_files == cmake_fs[arch].files
         libs == SelectSeq(build_files, LAMBDA i : endswith(i, S_so))
     IN  IF arch = "arm"
         THEN /\ arm_libs' = libs
              /\ arch' = "x86"
              /\ pc' = "configure"
              /\ UNCHANGED x86_libs
         ELSE /\ x86_libs' = libs
              /\ pc' = "reconcile"
              /\ UNCHANGED <<arm_libs, arch>>
  /\ UNCHANGED <<exit_status, env, manifest_vars, invoked, todo_dirs,
                 deleted, pack_vars>>

\* ------------------------------------------------------------------------
\* Adding the code section
\* ------------------------------------------------------------------------
InSeq(x, t) == \E i \in 1..Len(t) : t[i] = x

NativeEntry(lib) ==
  [key \in {"name", "type"} |->
     IF key = "name" THEN VStr(shortname(lib)) ELSE VStr(S_native)]

\* the list the loop iterates over
reconciled_libs == IF Len(arm_libs) = 0 THEN x86_libs ELSE arm_libs

AddCodeSection ==
  /\ pc = "reconcile"
  /\ IF "code" \notin DOMAIN package_yaml
     THEN LET libs == reconciled_libs
          IN  /\ warnings' = warnings
                   \cup {Warn("not compiled for the ARM architecture", libs[i]) :
                           i \in {j \in 1..Len(libs) : ~InSeq(libs[j], arm_libs)}}
                   \cup {Warn("not compiled for the X86 architecture", libs[i]) :
                           i \in {j \in 1..Len(libs) : ~InSeq(libs[j], x86_libs)}}
              /\ package_yaml' =
                   WithCode(package_yaml,
                            VList([i \in 1..Len(libs) |-> NativeEntry(libs[i])]))
     ELSE UNCHANGED <<package_yaml, warnings>>
  /\ pc' = "open"
  /\ UNCHANGED <<exit_status, env, package_yaml_native_libs, code_idx,
                 build_vars, pack_vars>>

\* ------------------------------------------------------------------------
\* Packaging
\* ------------------------------------------------------------------------
\* an archive entry: its name in the archive, where its content comes from
\* (root "manifest", "arm", "x86" or "src" and the path below that root) and,
\* for writestr, the data
Entry(arcname, root, path, data) ==
  [arcname |-> arcname, root |-> root, path |-> path, data |-> data]

WriteEntries(entries) ==
  archive' = [archive EXCEPT !.entries = archive.entries \o entries]

\* when the output path is a directory the archive is <id>.tbp inside it
OpenArchive ==
  /\ pc = "open"
  /\ \E out_is_dir \in BOOLEAN :
       output_pkg_path' =
         IF out_is_dir
         THEN output_pkg_path \o Slash \o package_yaml["id"].v \o S_tbp
         ELSE output_pkg_path
  /\ archive' = [state |-> "open",
                 entries |-> <<Entry(S_package_yaml, "manifest", <<>>,
                                     yaml_dump(package_yaml))>>]
  /\ pc' = "arm_libs"
  /\ UNCHANGED <<exit_status, env, manifest_vars, build_vars, pack_idx>>

LibEntries(a, libs) ==
  [i \in 1..Len(libs) |-> Entry(ArchPrefix(a) \o libs[i], a, libs[i], <<>>)]

WriteArmLibs ==
  /\ pc = "arm_libs"
  /\ WriteEntries(LibEntries("arm", arm_libs))
  /\ pc' = "x86_libs"
  /\ UNCHANGED <<exit_status, env, manifest_vars, build_vars, output_pkg_path,
                 pack_idx>>

WriteX86Libs ==
  /\ pc = "x86_libs"
  /\ WriteEntries(LibEntries("x86", x86_libs))
  /\ pc' = "pack_dir"
  /\ UNCHANGED <<exit_status, env, manifest_vars, build_vars, output_pkg_path,
                 pack_idx>>

\* os.listdir order of the names a directory can hold
NameOrder == <<(<<"a">>), (<<"d">>)>>

listdir(tree, dir_path) ==
  SelectSeq(NameOrder,
            LAMBDA f : (dir_path \o Slash \o f) \in tree.files \cup tree.dirs)

RECURSIVE pack_dir(_, _, _, _)
RECURSIVE pack_each(_, _, _, _, _)

\* the entries pack_dir(zip_file, zip_path, dir_path) writes; the test that
\* decides between descending and writing looks at zip_path + "/" + f, a
\* path relative to the working directory
pack_dir(tree, cwd, zip_path, dir_path) ==
  IF dir_path \notin tree.dirs THEN <<>>
  ELSE LET zp == IF endswith(zip_path, Slash)
                 THEN SubSeq(zip_path, 1, Len(zip_path) - 1)
                 ELSE zip_path
       IN  pack_each(tree, cwd, zp, dir_path, listdir(tree, dir_path))

pack_each(tree, cwd, zp, dir_path, names) ==
  IF names = <<>> THEN <<>>
  ELSE LET f == Head(names)
           zf == zp \o Slash \o f
           df == dir_path \o Slash \o f
           this == IF zf \in cwd
                   THEN pack_dir(tree, cwd, zf, df)
                   ELSE <<Entry(IF df \in tree.dirs THEN zf \o Slash ELSE zf,
                                "src", df, <<>>)>>
       IN  this \o pack_each(tree, cwd, zp, dir_path, Tail(names))

PackDir ==
  /\ pc = "pack_dir"
  /\ pack_idx <= Len(AuxDirs)
  /\ WriteEntries(pack_dir(src_tree, cwd_dirs, AuxDirs[pack_idx] \o Slash,
                           AuxDirs[pack_idx]))
  /\ pack_idx' = pack_idx + 1
  /\ UNCHANGED <<pc, exit_status, env, manifest_vars, build_vars,
                 output_pkg_path>>

CloseArchive ==
  /\ pc = "pack_dir"
  /\ pack_idx > Len(AuxDirs)
  /\ archive' = [archive EXCEPT !.state = "closed"]
  /\ pc' = "done"
  /\ exit_status' = 0
  /\ UNCHANGED <<env, manifest_vars, build_vars, output_pkg_path, pack_idx>>

Next ==
  \/ ValidatePaths
  \/ ParsePackageYaml
  \/ SanitizePackageYaml
  \/ ValidateId
  \/ ValidateVersion
  \/ ValidateCode
  \/ ValidateCodeEntry
  \/ FindToolchain
  \/ CheckCMake
  \/ Configure
  \/ Build
  \/ ReadTargets
  \/ CleanTarget
  \/ ListLibs
  \/ AddCodeSection
  \/ OpenArchive
  \/ WriteArmLibs
  \/ WriteX86Libs
  \/ PackDir
  \/ CloseArchive

Spec == Init /\ [][Next]_vars

\* ------------------------------------------------------------------------
\* Properties
\* ------------------------------------------------------------------------
SeqSet(t) == {t[i] : i \in 1..Len(t)}

\* the script has finished sanitizing the manifest (a run that ended before
\* it loaded the manifest has an empty package_yaml)
Sanitized ==
  \/ pc \notin {"paths", "load", "sanitize", "exit"}
  \/ pc = "exit" /\ DOMAIN package_yaml # {}

\* a configure or a build step was run
BuildInvoked ==
  \E i \in 1..Len(invoked) : invoked[i].cmd \in {"configure", "build"}

\* the manifest as it was written to the archive
PackagedManifest == archive.entries[1].data
PackagedKeys == {PackagedManifest[i][1] : i \in 1..Len(PackagedManifest)}
PackagedValue(key) ==
  PackagedManifest[CHOOSE i \in 1..Len(PackagedManifest) :
                     PackagedManifest[i][1] = key][2]

\* the .so files a CMake run leaves in its build directory
BuiltSo(a) == {f \in SeqSet(cmake_fs[a].files) : endswith(f, S_so)}

\* C1: a sanitized manifest without id, without version, or with a version
\* that is not major[.minor[.patch]] in digits only, ends the run with a
\* non-zero status before any build step is invoked and before any archive
\* is written.
C1_InvalidManifestIsFatal ==
  (/\ Sanitized
   /\ \/ "id" \notin DOMAIN package_yaml
      \/ "version" \notin DOMAIN package_yaml
      \/ ~DottedTriple(package_yaml["version"].v))
  => /\ pc \in {"validate_id", "validate_version", "exit"}
     /\ exit_status # 0
     /\ ~BuildInvoked
     /\ archive.state = "none"

\* C2: when the manifest has no code section, the packaged manifest's code
\* list holds exactly one entry {name: <short name>, type: "native"} for
\* every artifact file name found in the ARM or in the x86 build output.
C2_Expected(lib) ==
  [key \in {"name", "type"} |->
     IF key = "type" THEN VStr(S_native)
     ELSE IF startswith(lib, S_lib)
          THEN VStr(SubSeq(lib, Len(S_lib) + 1, Len(lib) - Len(S_so)))
          ELSE VStr(lib)]

C2_EntryPerArtifact ==
  (pc = "done" /\ "code" \notin DOMAIN manifest_file)
  => LET code == PackagedValue("code").v
     IN  \A lib \in BuiltSo("arm") \cup BuiltSo("x86") :
           Cardinality({i \in 1..Len(code) : code[i] = C2_Expected(lib)}) = 1

\* C3: when the manifest has no code section and an artifact was built for
\* one architecture only, a warning naming it is printed and the run still
\* succeeds.
C3_WarnsOneArchOnly ==
  (/\ pc \in {"open", "arm_libs", "x86_libs", "pack_dir", "done"}
   /\ "code" \notin DOMAIN manifest_file)
  => /\ \A lib \in BuiltSo("arm") \ BuiltSo("x86") :
          Warn("not compiled for the X86 architecture", lib) \in warnings
     /\ \A lib \in BuiltSo("x86") \ BuiltSo("arm") :
          Warn("not compiled for the ARM architecture", lib) \in warnings
     /\ exit_status # 1

\* C4: on a successful run the first archive entry is package.yaml with the
\* serialized manifest, every artifact of an architecture's build is in the
\* archive at native/<architecture-id>/<filename>, and no artifact of one
\* architecture's build is stored under the other architecture's directory.
C4_ArchiveLayout ==
  pc = "done"
  => LET entries == archive.entries
     IN  /\ archive.state = "closed"
         /\ entries[1].arcname = S_package_yaml
         /\ entries[1].data = yaml_dump(package_yaml)
         /\ \A i \in 2..Len(entries) : entries[i].arcname # S_package_yaml
         /\ \A lib \in BuiltSo("arm") :
              \E i \in 1..Len(entries) :
                /\ entries[i].arcname =
                     S_native \o Slash \o S_arm \o Slash \o lib
                /\ entries[i].root = "arm"
                /\ entries[i].path = lib
         /\ \A lib \in BuiltSo("x86") :
              \E i \in 1..Len(entries) :
                /\ entries[i].arcname =
                     S_native \o Slash \o S_x86 \o Slash \o lib
                /\ entries[i].root = "x86"
                /\ entries[i].path = lib
         /\ \A i \in 1..Len(entries) :
              /\ entries[i].root = "arm"
                 => ~startswith(entries[i].arcname,
                                S_native \o Slash \o S_x86 \o Slash)
              /\ entries[i].root = "x86"
                 => ~startswith(entries[i].arcname,
                                S_native \o Slash \o S_arm \o Slash)

C4_Witness ==
  /\ pc = "done"
  /\ BuiltSo("arm") = {LibFooSo}
  /\ BuiltSo("x86") = {LibFooSo, BarSo}

\* the stage of the run a position of the script belongs to
Stage ==
  CASE pc \in {"paths", "load"} -> 1
    [] pc \in {"sanitize", "validate_id", "validate_version",
               "validate_code", "code_entry"} -> 2
    [] pc \in {"toolchain", "cmake_version"} -> 3
    [] pc \in {"configure", "build", "targets", "clean"} ->
         IF arch = "arm" THEN 4 ELSE 5
    [] pc = "reconcile" -> 6
    [] pc \in {"open", "arm_libs", "x86_libs", "pack_dir"} -> 7
    [] pc = "done" -> 8
    [] pc = "exit" -> 9

Succeeded(c, a) ==
  \E i \in 1..Len(invoked) : invoked[i] = Cmd(c, a, "", 0)

C5_Order ==
  \* no build before the manifest has passed validation
  /\ BuildInvoked
     => /\ "id" \in DOMAIN package_yaml
        /\ "version" \in DOMAIN package_yaml
        /\ version_match(package_yaml["version"].v)
        /\ Stage >= 4
  \* the x86 build starts only after the ARM build has succeeded
  /\ \A i \in 1..Len(invoked) :
       invoked[i].arch = "x86"
       => \E j \in 1..(i - 1) : invoked[j] = Cmd("build", "arm", "", 0)
  \* the archive is opened only after both builds have succeeded
  /\ archive.state # "none"
     => Succeeded("build", "arm") /\ Succeeded("build", "x86")
  \* nothing is run twice
  /\ \A i, j \in 1..Len(invoked) :
       (/\ invoked[i].cmd = invoked[j].cmd
        /\ invoked[i].arch = invoked[j].arch
        /\ invoked[i].target = invoked[j].target) => i = j
  \* exit status 1 after a fatal error, 0 at the end of packaging
  /\ exit_status = 1 <=> pc = "exit"
  /\ exit_status = 0 <=> pc = "done"

C5_Step ==
  \* nothing executes after the run has ended
  /\ pc \notin {"exit", "done"}
  \* a step stays in its stage, enters the next one, or is a fatal error
  /\ pc' = "exit" \/ Stage' \in {Stage, Stage + 1}

\* C5: the run goes Load, Validate, Build(armeabi-v7a), Build(x86),
\* Reconcile, Package in this order; no build is invoked before validation
\* has passed, the x86 build starts only after the ARM build succeeded, the
\* archive is opened only after both builds succeeded; the first fatal error
\* ends the run with status 1 and nothing runs after it or is retried; a run
\* that reaches the end of packaging exits with status 0.
C5_StageOrder == [](C5_Order) /\ [][C5_Step]_vars

C5_Witness ==
  /\ pc = "exit"
  /\ Succeeded("build", "arm")
  /\ invoked[Len(invoked)] = Cmd("build", "x86", "", 1)

\* the claim's reading of a sanitized code entry: type before loader, name
\* before path; the empty sequence when neither field is there
C6_Loader(e) ==
  IF "type" \in DOMAIN e THEN <<e["type"].v>>
  ELSE IF "loader" \in DOMAIN e THEN <<e["loader"].v>>
  ELSE <<>>

C6_Path(e) ==
  IF "name" \in DOMAIN e THEN <<e["name"].v>>
  ELSE IF "path" \in DOMAIN e THEN <<e["path"].v>>
  ELSE <<>>

C6_Unresolved(e) == C6_Loader(e) = <<>> \/ C6_Path(e) = <<>>

C6_Entries ==
  LET raw == manifest_file["code"].v
  IN  [i \in 1..Len(raw) |->
         verify_properties(raw[i], code_string_properties,
                           code_string_properties)]

RECURSIVE C6_NativePaths(_)
C6_NativePaths(es) ==
  IF es = <<>> THEN <<>>
  ELSE (IF C6_Loader(Head(es)) = <<S_native>> THEN C6_Path(Head(es))
        ELSE <<>>) \o C6_NativePaths(Tail(es))

\* C6: for every entry of a declared code list the loader is taken from
\* type, else from loader, and the path from name, else from path, after the
\* entry's unknown and non-string fields were pruned; an entry whose loader
\* or path cannot be resolved ends the run with status 1 before any build.
C6_CodeEntriesResolved ==
  ("code" \in DOMAIN manifest_file /\ manifest_file["code"].k = "list")
  => /\ (\E i \in 1..Len(C6_Entries) : C6_Unresolved(C6_Entries[i]))
        => /\ pc \in {"paths", "load", "sanitize", "validate_id",
                      "validate_version", "validate_code", "code_entry",
                      "exit"}
           /\ exit_status # 0
           /\ ~BuildInvoked
     /\ pc = "code_entry"
        => package_yaml_native_libs =
             C6_NativePaths(SubSeq(C6_Entries, 1, code_idx - 1))
     /\ Stage \in 3..8
        => package_yaml_native_libs = C6_NativePaths(C6_Entries)

C6_Witness ==
  /\ pc = "exit"
  /\ "code" \in DOMAIN manifest_file
  /\ manifest_file["code"].k = "list"
  /\ Len(manifest_file["code"].v) = 2
  /\ DOMAIN manifest_file["code"].v[1] = {"type", "loader", "name", "path"}
  /\ manifest_file["code"].v[1]["type"].v = S_native
  /\ DOMAIN manifest_file["code"].v[2] = {"loader", "name"}
  /\ manifest_file["code"].v[2]["loader"].k = "null"
  /\ package_yaml_native_libs = <<S_foo>>
  /\ ~BuildInvoked

C8_StringForm(x) ==
  CASE x.k = "int" /\ x.v = 1 -> <<"1">>
    [] x.k = "int" /\ x.v = 7 -> <<"7">>
    [] x.k = "int" /\ x.v = 12 -> <<"1", "2">>
    [] x.k = "float" /\ x.v = <<1, 0>> -> <<"1", ".", "0">>
    [] x.k = "float" /\ x.v = <<1, 5>> -> <<"1", ".", "5">>
    [] x.k = "bool" /\ x.v -> <<"T", "r", "u", "e">>

C9_AuxDirsCopied ==
  pc = "done"
  => /\ \A p \in src_tree.files :
          \E i \in 1..Len(archive.entries) :
            /\ archive.entries[i].arcname = p
            /\ archive.entries[i].root = "src"
            /\ archive.entries[i].path = p
     /\ \A i \in 1..Len(archive.entries) :
          archive.entries[i].root = "src"
          => \E j \in 1..Len(AuxDirs) :
               /\ AuxDirs[j] \in src_tree.dirs
               /\ startswith(archive.entries[i].arcname, AuxDirs[j] \o Slash)

ListedSo(a) == SelectSeq(cmake_fs[a].files, LAMBDA f : endswith(f, S_so))

StaleDirs(a) ==
  SeqSet(cmake_fs[a].all_target_dirs) \ cmake_fs[a].built_target_dirs

C10_Statuses ==
  \* the build step follows a configure step that returned 0
  /\ \A i \in 1..Len(invoked) :
       invoked[i].cmd = "build"
       => i > 1 /\ invoked[i - 1] = Cmd("configure", invoked[i].arch, "", 0)
  \* a failing configure or build step ends the run before anything of that
  \* architecture is cleaned or listed
  /\ \A i \in 1..Len(invoked) :
       (invoked[i].cmd \in {"configure", "build"} /\ invoked[i].status # 0)
       => /\ i = Len(invoked)
          /\ pc = "exit"
          /\ exit_status = 1
          /\ \A d \in deleted : d[1] # invoked[i].arch
          /\ x86_libs = <<>>
          /\ invoked[i].arch = "arm" => arm_libs = <<>>
  \* a clean script is run for stale targets only; whatever it returns, the
  \* target directory is deleted, and a failure is warned about
  /\ \A i \in 1..Len(invoked) :
       invoked[i].cmd = "clean"
       => /\ invoked[i].target \in StaleDirs(invoked[i].arch)
          /\ <<invoked[i].arch, invoked[i].target>> \in deleted
          /\ invoked[i].status # 0
             => Warn("Failed to run clean script",
                     <<invoked[i].arch, invoked[i].target>>) \in warnings
  \* once run_cmake has returned, the stale targets are gone and the .so
  \* files of the build directory are the result
  /\ (arch = "x86" /\ Stage >= 4)
     => /\ arm_libs = ListedSo("arm")
        /\ \A d \in StaleDirs("arm") : <<"arm", d>> \in deleted
  /\ Stage \in 6..8
     => /\ x86_libs = ListedSo("x86")
        /\ \A d \in StaleDirs("x86") : <<"x86", d>> \in deleted

\* the clean loop never ends the run
C10_CleanStep ==
  pc = "clean" => pc' \in {"clean", "configure", "reconcile"} /\ exit_status' = -1

\* C10: in run_cmake the configure step runs first and the build step only
\* after it returned 0; a non-zero status of either ends the run with status
\* 1 before any artifact is listed; a non-zero status of a stale target's
\* clean script only warns: the directory is still deleted and run_cmake
\* returns the .so files of the build directory.
C10_RunCMake == [](C10_Statuses) /\ [][C10_CleanStep]_vars

C10_Witness ==
  /\ arch = "x86"
  /\ pc = "configure"
  /\ invoked[Len(invoked)] = Cmd("clean", "arm", "old.dir", 1)
  /\ arm_libs = <<BarSo, LibFooSo>>
  /\ <<"arm", "old.dir">> \in deleted
====
